---- MODULE Spec2Model ----
(***************************************************************************)
(* Model of seed.py: the authenticated seeding script.  It polls the       *)
(* server until reachable, logs in, loads the seed file and then, for each *)
(* seed item in file order, creates a credential profile and a discovery   *)
(* profile through the server's HTTP API.                                  *)
(*                                                                         *)
(* The server and the file system are the environment: every response,    *)
(* connection failure and file content is drawn from a small set.  The    *)
(* variables i, login_res, token, headers, seed_file, data, cred_id and   *)
(* disc_id are the script's own variables; calls, resps, polls, logins,   *)
(* reads, outcomes and output record what the script did; idx is the       *)
(* position of the for loop over data; pc is the position in the script;   *)
(* exit_status and error are how the process ended.                        *)
(***************************************************************************)
EXTENDS Integers, Sequences, FiniteSets

VARIABLES pc, i, login_res, token, headers, seed_file, data, idx, cred_id,
          disc_id, calls, resps, polls, pollRes, slept, logins, reads,
          outcomes, output, exit_status, error

vars == <<pc, i, login_res, token, headers, seed_file, data, idx, cred_id,
          disc_id, calls, resps, polls, pollRes, slept, logins, reads,
          outcomes, output, exit_status, error>>

(***************************************************************************)
(* Bounds of the model.                                                    *)
(***************************************************************************)
MaxItems == 2

(***************************************************************************)
(* Program constants.                                                      *)
(***************************************************************************)
MaxAttemptsShort == 10 - 1

MaxAttempts == 10

ADMIN_USER == "admin"

ADMIN_PASS == "admin"

None == "None"

Unset == [unset |-> TRUE]

Running == -1

LoadError == "OSError or JSONDecodeError"

(***************************************************************************)
(* Seed items.  A JSON object is a record; an absent key is an absent      *)
(* field.  credentials is an ordered mapping of string keys to string      *)
(* values, kept as a sequence of <<key, value>> pairs.                     *)
(***************************************************************************)
ItemFull ==
    [request_id |-> "host1", target |-> "10.0.0.5", port |-> 5985,
     credentials |-> << <<"user", "a">>, <<"pass", "b">> >>]

ItemNoRequestId ==
    [target |-> "10.0.0.6", port |-> 5986,
     credentials |-> << <<"user", "c">> >>]

ItemNoCredentials ==
    [request_id |-> "host3", target |-> "10.0.0.7", port |-> 5985]

ItemNoTarget ==
    [request_id |-> "host4", port |-> 22, credentials |-> << >>]

SeedItems == {ItemFull, ItemNoRequestId, ItemNoCredentials, ItemNoTarget}

SeedFiles == UNION {[1..n -> SeedItems] : n \in 0..MaxItems}

Has(obj, key) == key \in DOMAIN obj

(***************************************************************************)
(* What the server can answer.                                             *)
(***************************************************************************)
ConnectionError == [exc |-> "ConnectionError"]

PollStatuses == {200, 503}

LoginStatuses == {200, 201, 401}

LoginBodies == {[token |-> "jwt"], [message |-> "no token"]}

CreateStatuses == {200, 201, 500}

CredBodies == {[id |-> "c-1"], [id |-> "c-2"], [message |-> "no id"]}

DiscBodies == {[id |-> "d-1"], [message |-> "no id"]}

Responses(statuses, bodies) == [status : statuses, body : bodies]

IsResponse(r) == Has(r, "status")

(***************************************************************************)
(* json.dumps of a mapping of strings to strings.                          *)
(***************************************************************************)
RECURSIVE JsonMembers(_)
JsonMembers(pairs) ==
    IF pairs = << >> THEN ""
    ELSE "\"" \o pairs[1][1] \o "\": \"" \o pairs[1][2] \o "\""
         \o (IF Len(pairs) > 1 THEN ", " ELSE "")
         \o JsonMembers(Tail(pairs))

JsonDumps(pairs) == "{" \o JsonMembers(pairs) \o "}"

(***************************************************************************)
(* item.get('request_id', default)                                         *)
(***************************************************************************)
GetRequestId(item, default) ==
    IF Has(item, "request_id") THEN item.request_id ELSE default

CredPayloadTargetDefault(item) ==
    [name |-> GetRequestId(item, "target") \o "_creds",
     protocol |-> "winrm",
     payload |-> JsonDumps(item.credentials)]

CredPayload(item) ==
    [name |-> GetRequestId(item, "imported") \o "_creds",
     protocol |-> "winrm",
     payload |-> JsonDumps(item.credentials)]

DiscPayload(item, credId) ==
    [name |-> GetRequestId(item, "imported") \o "_discovery",
     target |-> item.target,
     port |-> item.port,
     credential_profile_id |-> credId,
     auto_provision |-> TRUE,
     auto_run |-> TRUE]

LoginOkLenient(status) == status \in {201, 200}

LoginOk(status) == status = 200

IsSuccessStrict(status) == status = 201

IsSuccessAny(status) == status >= 200

IsSuccess(status) == status \in {201, 200}

Init ==
    /\ pc = "poll"
    /\ i = -1
    /\ login_res = Unset
    /\ token = None
    /\ headers = Unset
    /\ seed_file = None
    /\ data = << >>
    /\ idx = 0
    /\ cred_id = None
    /\ disc_id = None
    /\ calls = << >>
    /\ resps = << >>
    /\ polls = 0
    /\ pollRes = Unset
    /\ slept = 0
    /\ logins = << >>
    /\ reads = 0
    /\ outcomes = << >>
    /\ output = << <<"Waiting for server to start...">> >>
    /\ exit_status = Running
    /\ error = None

(***************************************************************************)
(* How a step leaves the control state (pc, idx, outcomes, exit_status,    *)
(* error).  sys.exit(1) and an exception nobody catches both end the       *)
(* process with status 1; continue moves the loop to the next item.        *)
(***************************************************************************)
SysExit(code) ==
    /\ pc' = "exited"
    /\ exit_status' = code
    /\ error' = "SystemExit"
    /\ UNCHANGED <<idx, outcomes>>

Uncaught(exc) ==
    /\ pc' = "exited"
    /\ exit_status' = 1
    /\ error' = exc
    /\ UNCHANGED <<idx, outcomes>>

Continue(outcome) ==
    /\ pc' = "loop"
    /\ idx' = idx + 1
    /\ outcomes' = Append(outcomes, outcome)
    /\ UNCHANGED <<exit_status, error>>

Goto(label) ==
    /\ pc' = label
    /\ UNCHANGED <<idx, outcomes, exit_status, error>>

Emit(msgs) == output' = output \o msgs

(***************************************************************************)
(* Lines 14-23: one attempt of the readiness loop.  Any response makes the *)
(* server reachable; only ConnectionError is caught.                       *)
(***************************************************************************)
ReachableNoErrorStatus(r) == IsResponse(r) /\ r.status < 400

Reachable(r) == IsResponse(r)

PollAttempt ==
    /\ pc = "poll"
    /\ polls < MaxAttempts
    /\ \E r \in {ConnectionError} \cup Responses(PollStatuses, {[page |-> "login"]}) :
        /\ i' = polls
        /\ polls' = polls + 1
        /\ pollRes' = r
        /\ IF Reachable(r)
           THEN /\ Emit(<< <<"Server is reachable!">> >>)
                /\ Goto("login")
                /\ UNCHANGED slept
           ELSE /\ slept' = slept + 1
                /\ IF polls' < MaxAttempts
                   THEN /\ Goto("poll")
                        /\ UNCHANGED output
                   ELSE /\ Emit(<< <<"Server failed to start or is unreachable.">> >>)
                        /\ SysExit(1)
    /\ UNCHANGED <<login_res, token, headers, seed_file, data, cred_id,
                   disc_id, calls, resps, logins, reads>>

(***************************************************************************)
(* Lines 26-38: login                                                      *)
(***************************************************************************)
Login ==
    /\ pc = "login"
    /\ \E r \in {ConnectionError} \cup Responses(LoginStatuses, LoginBodies) :
        /\ logins' = Append(logins, [username |-> ADMIN_USER, password |-> ADMIN_PASS])
        /\ IF ~IsResponse(r)
           THEN /\ Emit(<< <<"Logging in as", ADMIN_USER>> >>)
                /\ Uncaught("ConnectionError")
                /\ UNCHANGED <<login_res, token, headers>>
           ELSE /\ login_res' = r
                /\ IF ~LoginOk(r.status)
                   THEN /\ Emit(<< <<"Logging in as", ADMIN_USER>>,
                                   <<"Login failed", r.status, r.body>> >>)
                        /\ SysExit(1)
                        /\ UNCHANGED <<token, headers>>
                   ELSE IF ~Has(r.body, "token")
                   THEN /\ Emit(<< <<"Logging in as", ADMIN_USER>> >>)
                        /\ Uncaught("KeyError")
                        /\ UNCHANGED <<token, headers>>
                   ELSE /\ token' = r.body.token
                        /\ headers' = [Authorization |-> "Bearer " \o r.body.token]
                        /\ Emit(<< <<"Logging in as", ADMIN_USER>>,
                                   <<"Login successful.">> >>)
                        /\ Goto("load")
    /\ UNCHANGED <<i, seed_file, data, cred_id, disc_id, calls, resps,
                   polls, pollRes, slept, reads>>

(***************************************************************************)
(* Lines 41-45: choose and load the seed file                              *)
(***************************************************************************)
SeedFileName(winExists) ==
    IF winExists THEN "poll_input_win_a.json" ELSE "poll_input.json"

LoadSeed ==
    /\ pc = "load"
    /\ \E winExists \in BOOLEAN, readable \in BOOLEAN :
        \E content \in (IF readable THEN SeedFiles ELSE {<< >>}) :
            /\ seed_file' = SeedFileName(winExists)
            /\ reads' = reads + 1
            /\ Emit(<< <<"Reading seed data from", seed_file'>> >>)
            /\ IF readable
               THEN /\ data' = content
                    /\ pc' = "loop"
                    /\ idx' = 1
                    /\ UNCHANGED <<outcomes, exit_status, error>>
               ELSE /\ Uncaught(LoadError)
                    /\ UNCHANGED data
    /\ UNCHANGED <<i, login_res, token, headers, cred_id, disc_id, calls,
                   resps, polls, pollRes, slept, logins>>

(***************************************************************************)
(* The two creation calls and what follows each kind of answer.            *)
(***************************************************************************)
CredCall(n, item) ==
    [kind |-> "credential", item |-> n, url |-> "/api/v1/credentials",
     json |-> CredPayload(item), headers |-> headers]

DiscCall(n, item, credId) ==
    [kind |-> "discovery", item |-> n, url |-> "/api/v1/discovery_profiles",
     json |-> DiscPayload(item, credId), headers |-> headers]

CredFailedFallThrough == Goto("disc")

CredFailed == Continue("credential failed")

DiscFailedExit == SysExit(1)

DiscFailed == Continue("discovery failed")

MissingIdSkipped == Continue("malformed")

MissingId == Uncaught("KeyError")

(***************************************************************************)
(* Lines 47-62: next item of the loop, credential profile                  *)
(***************************************************************************)
CreateCredential ==
    /\ pc = "loop"
    /\ idx <= Len(data)
    /\ LET item == data[idx]
           creating == <<"Creating credential for", GetRequestId(item, "target")>>
       IN
        IF ~Has(item, "credentials")
        THEN /\ Uncaught("KeyError")
             /\ UNCHANGED <<cred_id, calls, resps, output>>
        ELSE \E r \in {ConnectionError} \cup Responses(CreateStatuses, CredBodies) :
            /\ calls' = Append(calls, CredCall(idx, item))
            /\ resps' = Append(resps, r)
            /\ IF ~IsResponse(r)
               THEN /\ Emit(<<creating>>)
                    /\ Uncaught("ConnectionError")
                    /\ UNCHANGED cred_id
               ELSE IF ~IsSuccess(r.status)
               THEN /\ Emit(<<creating, <<"Failed to create credential", r.body>> >>)
                    /\ CredFailed
                    /\ UNCHANGED cred_id
               ELSE IF ~Has(r.body, "id")
               THEN /\ Emit(<<creating>>)
                    /\ MissingId
                    /\ UNCHANGED cred_id
               ELSE /\ cred_id' = r.body.id
                    /\ Emit(<<creating, <<"Credential created with ID", r.body.id>> >>)
                    /\ Goto("disc")
    /\ UNCHANGED <<i, login_res, token, headers, seed_file, data, disc_id,
                   polls, pollRes, slept, logins, reads>>

(***************************************************************************)
(* Lines 64-81: discovery profile of the same item                         *)
(***************************************************************************)
CreateDiscovery ==
    /\ pc = "disc"
    /\ LET item == data[idx]
           creating == <<"Creating discovery profile for", GetRequestId(item, "target")>>
       IN
        IF ~Has(item, "target") \/ ~Has(item, "port")
        THEN /\ Uncaught("KeyError")
             /\ UNCHANGED <<disc_id, calls, resps, output>>
        ELSE \E r \in {ConnectionError} \cup Responses(CreateStatuses, DiscBodies) :
            /\ calls' = Append(calls, DiscCall(idx, item, cred_id))
            /\ resps' = Append(resps, r)
            /\ IF ~IsResponse(r)
               THEN /\ Emit(<<creating>>)
                    /\ Uncaught("ConnectionError")
                    /\ UNCHANGED disc_id
               ELSE IF ~IsSuccess(r.status)
               THEN /\ Emit(<<creating, <<"Failed to create discovery profile", r.body>> >>)
                    /\ DiscFailed
                    /\ UNCHANGED disc_id
               ELSE IF ~Has(r.body, "id")
               THEN /\ Emit(<<creating>>)
                    /\ MissingId
                    /\ UNCHANGED disc_id
               ELSE /\ disc_id' = r.body.id
                    /\ Emit(<<creating, <<"Discovery profile created with ID", r.body.id>> >>)
                    /\ Continue("created")
    /\ UNCHANGED <<i, login_res, token, headers, seed_file, data, cred_id,
                   polls, pollRes, slept, logins, reads>>

(***************************************************************************)
(* Line 83: the loop is exhausted; the script prints and ends, and the     *)
(* interpreter exits with status 0.                                        *)
(***************************************************************************)
CompletionStatusAggregated(outs) ==
    IF \E k \in DOMAIN outs : outs[k] # "created" THEN 1 ELSE 0

CompletionStatus(outs) == 0

Complete ==
    /\ pc = "loop"
    /\ idx > Len(data)
    /\ Emit(<< <<"Done processing.">> >>)
    /\ pc' = "exited"
    /\ exit_status' = CompletionStatus(outcomes)
    /\ UNCHANGED <<i, login_res, token, headers, seed_file, data, idx,
                   cred_id, disc_id, calls, resps, polls, pollRes, slept,
                   logins, reads, outcomes, error>>

Next ==
    \/ PollAttempt
    \/ Login
    \/ LoadSeed
    \/ CreateCredential
    \/ CreateDiscovery
    \/ Complete

Spec == Init /\ [][Next]_vars

TypeOK ==
    /\ pc \in {"poll", "login", "load", "loop", "disc", "exited"}
    /\ exit_status \in {Running, 0, 1}
    /\ Len(calls) = Len(resps)
    /\ idx \in 0..(Len(data) + 1)

(***************************************************************************)
(* Vocabulary of the properties.                                           *)
(***************************************************************************)
Loaded == seed_file # None /\ error # LoadError

SuccessStatus(r) == IsResponse(r) /\ r.status \in {200, 201}

FailedStatus(r) == IsResponse(r) /\ r.status \notin {200, 201}

Created(r) == SuccessStatus(r) /\ Has(r.body, "id")

Malformed(r) == SuccessStatus(r) /\ ~Has(r.body, "id")

WellFormed(item) == {"credentials", "target", "port"} \subseteq DOMAIN item

Printed(msg) == \E k \in DOMAIN output : output[k] = msg

Last(seq) == seq[Len(seq)]

ExpectedPrefix(item) ==
    IF "request_id" \in DOMAIN item THEN item.request_id ELSE "imported"

(***************************************************************************)
(* C1: when the seed file is loaded (server reachable, login succeeded),   *)
(* every item has its fields and every creation call returns 200/201 with  *)
(* an id, the calls alternate credential, discovery in file order, each    *)
(* discovery call carries the id returned by the credential call just      *)
(* before it, and at the end exactly N of each kind have been issued.      *)
(***************************************************************************)
C1_AllItemsCreatedInOrder ==
    (/\ Loaded
     /\ \A n \in DOMAIN data : WellFormed(data[n])
     /\ \A k \in DOMAIN resps : Created(resps[k]))
    =>
    /\ \A k \in DOMAIN calls :
        /\ calls[k].item = (k + 1) \div 2
        /\ calls[k].kind = IF k % 2 = 1 THEN "credential" ELSE "discovery"
        /\ calls[k].json.name =
            ExpectedPrefix(data[(k + 1) \div 2])
                \o (IF k % 2 = 1 THEN "_creds" ELSE "_discovery")
        /\ k % 2 = 0 =>
            calls[k].json.credential_profile_id = resps[k - 1].body.id
    /\ pc = "exited" =>
        /\ Len(calls) = 2 * Len(data)
        /\ Cardinality({k \in DOMAIN calls : calls[k].kind = "credential"}) = Len(data)
        /\ Cardinality({k \in DOMAIN calls : calls[k].kind = "discovery"}) = Len(data)

C1_Witness ==
    /\ pc = "exited"
    /\ Loaded
    /\ data = <<ItemFull, ItemNoRequestId>>
    /\ Len(calls) = 4
    /\ \A k \in DOMAIN resps : Created(resps[k])
    /\ resps[1].body.id # resps[3].body.id

(***************************************************************************)
(* C2: a creation call answered with a status other than 200/201 ends the  *)
(* work on its item only: no later call is made for that item (so no       *)
(* discovery call after a failed credential call), and the loop goes on    *)
(* with the next item, whose credential call is the one built from that    *)
(* item alone.                                                             *)
(***************************************************************************)
C2_FailureSkipsOnlyItsItem ==
    \A k \in DOMAIN calls :
        FailedStatus(resps[k]) =>
            LET n == calls[k].item IN
            /\ \A j \in DOMAIN calls : j > k => calls[j].item > n
            /\ calls[k].kind = "credential" =>
                \A j \in DOMAIN calls :
                    ~(calls[j].kind = "discovery" /\ calls[j].item = n)
            /\ IF k < Len(calls)
               THEN /\ n < Len(data)
                    /\ calls[k + 1].kind = "credential"
                    /\ calls[k + 1].item = n + 1
                    /\ calls[k + 1].json = CredPayload(data[n + 1])
                    /\ calls[k + 1].headers = headers
               ELSE \/ pc = "loop" /\ idx = n + 1 /\ exit_status = Running
                    \/ /\ pc = "exited" /\ idx = n + 1
                       /\ n = Len(data) /\ exit_status = 0
                    \/ /\ pc = "exited" /\ idx = n + 1
                       /\ n < Len(data) /\ ~Has(data[n + 1], "credentials")
                       /\ error = "KeyError"

C2_Witness ==
    /\ pc = "exited"
    /\ Len(calls) = 3
    /\ calls[1].kind = "credential"
    /\ FailedStatus(resps[1])
    /\ Created(resps[2])
    /\ Created(resps[3])
    /\ calls[3].item = 2

(***************************************************************************)
(* C3: when all 10 readiness attempts raise ConnectionError the process    *)
(* has exited with status 1, not before the 10th attempt, and has issued   *)
(* no login call, read no seed file and issued no creation call.           *)
(***************************************************************************)
C3_UnreachableExitsWithOne ==
    /\ polls <= 10
    /\ (polls = 10 /\ slept = 10) =>
        /\ pc = "exited"
        /\ exit_status = 1
        /\ logins = << >>
        /\ reads = 0
        /\ seed_file = None
        /\ calls = << >>
    /\ (slept = polls /\ polls < 10) =>
        /\ pc = "poll"
        /\ exit_status = Running

C3_Witness ==
    /\ polls = 10
    /\ slept = 10
    /\ pollRes = ConnectionError
    /\ exit_status = 1

(***************************************************************************)
(* C4: a login answered with any status other than 200 makes the process   *)
(* exit with status 1 at once: the seed file is not read, no creation call *)
(* is issued, and login is attempted once only.                            *)
(***************************************************************************)
C4_LoginFailureExits ==
    /\ Len(logins) <= 1
    /\ (IsResponse(login_res) /\ login_res.status # 200) =>
        /\ pc = "exited"
        /\ exit_status = 1
        /\ Len(logins) = 1
        /\ reads = 0
        /\ seed_file = None
        /\ calls = << >>

C4_Witness ==
    /\ IsResponse(login_res)
    /\ login_res.status = 201
    /\ exit_status = 1

(***************************************************************************)
(* C5: once every item has been processed (created or skipped), the only   *)
(* thing left is the completion step, and after it the completion message  *)
(* is the last thing printed and the exit status is 0, however many items  *)
(* failed.                                                                 *)
(***************************************************************************)
C5_CompletionExitsZero ==
    (Loaded /\ Len(outcomes) = Len(data)) =>
        \/ /\ pc = "loop"
           /\ idx > Len(data)
           /\ exit_status = Running
        \/ /\ pc = "exited"
           /\ exit_status = 0
           /\ Last(output) = <<"Done processing.">>

C5_Witness ==
    /\ Loaded
    /\ pc = "exited"
    /\ exit_status = 0
    /\ Len(data) = 2
    /\ Len(outcomes) = 2
    /\ \A k \in DOMAIN outcomes : outcomes[k] # "created"

(***************************************************************************)
(* C6: the readiness poll ends at the first attempt that gets a response,  *)
(* whatever its status: every earlier attempt failed to connect, there is  *)
(* no later attempt, there are at most 10 attempts, and login is called    *)
(* only after an attempt that got a response.                              *)
(***************************************************************************)
C6_PollSucceedsOnFirstResponse ==
    /\ polls <= 10
    /\ IsResponse(pollRes) =>
        /\ pc # "poll"
        /\ polls = slept + 1
        /\ Printed(<<"Server is reachable!">>)
    /\ ~IsResponse(pollRes) =>
        /\ polls = slept
        /\ pc \in {"poll", "exited"}
    /\ logins # << >> => IsResponse(pollRes)

C6_Witness ==
    /\ IsResponse(pollRes)
    /\ pollRes.status = 503
    /\ polls = 10
    /\ slept = 9
    /\ Len(logins) = 1

(***************************************************************************)
(* C7, as stated: once the seed file is loaded, nothing makes the process  *)
(* exit with a non-zero status.                                            *)
(***************************************************************************)
C7_Original == Loaded => exit_status # 1

(***************************************************************************)
(* C7, amended: once the seed file is loaded, the process exits with       *)
(* status 1 only through an exception nobody catches, raised while an item *)
(* is being processed: a connection failure of a creation call, a 200/201  *)
(* response without id, or an item lacking a field.  A non-success status  *)
(* is never the cause.                                                     *)
(***************************************************************************)
C7_OnlyUncaughtExceptionsExitNonZero ==
    (Loaded /\ exit_status = 1) =>
        /\ pc = "exited"
        /\ idx \in 1..Len(data)
        /\ Len(outcomes) = idx - 1
        /\ ~Printed(<<"Done processing.">>)
        /\ \/ /\ error = "ConnectionError"
              /\ calls # << >>
              /\ Last(calls).item = idx
              /\ Last(resps) = ConnectionError
           \/ /\ error = "KeyError"
              /\ calls # << >>
              /\ Last(calls).item = idx
              /\ Malformed(Last(resps))
           \/ /\ error = "KeyError"
              /\ ~WellFormed(data[idx])

C7_Witness ==
    /\ Loaded
    /\ exit_status = 1
    /\ error = "KeyError"
    /\ calls # << >>
    /\ Malformed(Last(resps))
    /\ \E k \in DOMAIN resps : FailedStatus(resps[k])

(***************************************************************************)
(* C8: a 200/201 response without id, to either creation call, ends the    *)
(* run there with an error: it is the last call ever issued, the item is   *)
(* not counted as processed, and the completion message is not printed.    *)
(***************************************************************************)
C8_MissingIdIsFatal ==
    \A k \in DOMAIN resps :
        Malformed(resps[k]) =>
            /\ k = Len(calls)
            /\ pc = "exited"
            /\ exit_status = 1
            /\ error = "KeyError"
            /\ idx = calls[k].item
            /\ Len(outcomes) = calls[k].item - 1
            /\ ~Printed(<<"Done processing.">>)

C8_Witness ==
    /\ calls # << >>
    /\ Last(calls).kind = "discovery"
    /\ Malformed(Last(resps))
    /\ Last(resps).status = 200
    /\ Last(calls).item < Len(data)

(***************************************************************************)
(* C9: the payloads sent.  Credential: name is request_id + "_creds",      *)
(* protocol "winrm", payload the credentials as a JSON string.  Discovery: *)
(* name is request_id + "_discovery", target and port of the item, both    *)
(* flags true.  Without request_id the prefix is "imported".               *)
(***************************************************************************)
ExpectedDump(credentials) ==
    CASE credentials = << <<"user", "a">>, <<"pass", "b">> >> ->
            "{\"user\": \"a\", \"pass\": \"b\"}"
      [] credentials = << <<"user", "c">> >> -> "{\"user\": \"c\"}"
      [] credentials = << >> -> "{}"

C9_PayloadsSent ==
    \A k \in DOMAIN calls :
        LET item == data[calls[k].item]
            json == calls[k].json
        IN  IF calls[k].kind = "credential"
            THEN /\ DOMAIN json = {"name", "protocol", "payload"}
                 /\ json.name = ExpectedPrefix(item) \o "_creds"
                 /\ json.protocol = "winrm"
                 /\ json.payload = ExpectedDump(item.credentials)
                 /\ item = ItemFull => json.name = "host1_creds"
            ELSE /\ DOMAIN json = {"name", "target", "port",
                                   "credential_profile_id",
                                   "auto_provision", "auto_run"}
                 /\ json.name = ExpectedPrefix(item) \o "_discovery"
                 /\ json.target = item.target
                 /\ json.port = item.port
                 /\ json.auto_provision = TRUE
                 /\ json.auto_run = TRUE
                 /\ item = ItemFull => json.name = "host1_discovery"

C9_Witness ==
    /\ \E k \in DOMAIN calls : calls[k].json.name = "imported_creds"
    /\ \E k \in DOMAIN calls : calls[k].json.name = "imported_discovery"
    /\ \E k \in DOMAIN calls :
        /\ calls[k].json.name = "host1_creds"
        /\ calls[k].json.payload = "{\"user\": \"a\", \"pass\": \"b\"}"

(***************************************************************************)
(* C10: whatever the server answers, an item gets at most one call of each *)
(* kind; a discovery call comes right after the credential call of the     *)
(* same item, which returned 200/201 with an id, and carries that id; so   *)
(* discovery calls never outnumber successful credential calls.            *)
(***************************************************************************)
C10_DiscoveryOnlyAfterOwnCredential ==
    /\ \A j, k \in DOMAIN calls :
        (calls[j].kind = calls[k].kind /\ calls[j].item = calls[k].item) => j = k
    /\ \A k \in DOMAIN calls :
        calls[k].kind = "discovery" =>
            /\ k > 1
            /\ calls[k - 1].kind = "credential"
            /\ calls[k - 1].item = calls[k].item
            /\ Created(resps[k - 1])
            /\ calls[k].json.credential_profile_id = resps[k - 1].body.id
    /\ Cardinality({k \in DOMAIN calls : calls[k].kind = "discovery"})
        <= Cardinality({k \in DOMAIN calls :
                            calls[k].kind = "credential" /\ Created(resps[k])})

C10_Witness ==
    /\ Len(calls) = 3
    /\ Created(resps[1])
    /\ Created(resps[2])
    /\ calls[3].kind = "credential"
    /\ FailedStatus(resps[3])
    /\ cred_id = resps[1].body.id
    /\ pc = "exited"
====
